---- MODULE Spec2Model ----
(***************************************************************************)
(* Model of the eBay reconciliation engine of the warehouse tracker:       *)
(* ebayAPI.pullFromEbay, ebayAPI.pushToEbay and ebayAPI.smartSyncAll       *)
(* (src/unnamed/part_001), the older smartSyncAll of src/server.js, the    *)
(* unified data layer with its two storage backends, and the inventory    *)
(* routes that edit a record locally.                                      *)
(*                                                                         *)
(* One SKU-indexed local store (inventory), one SKU-indexed remote listing *)
(* set (ebay), a millisecond clock (now) and the account's credential      *)
(* (account).  Every handler is one action; results holds what the last    *)
(* sync call returned.                                                     *)
(***************************************************************************)
EXTENDS Integers, Sequences, FiniteSets, TLC

VARIABLES
    inventory,   \* localInventory.items / the InventoryItem collection: SKU -> record or None
    ebay,        \* the remote side: SKU -> listing or None
    account,     \* credential of the connected account
    now,         \* the clock read by new Date()
    dbMode,      \* DB_MODE: "local" (USE_LOCAL_DB=true) or "mongodb"
    results,     \* the aggregate the last sync call returned
    prev,        \* the stores, the credential and the clock as the last sync call found them
    budget,      \* remaining steps of the environment (edits, remote changes)
    calls        \* the smartSync calls in flight, each with its position and its locals

vars == <<inventory, ebay, account, now, dbMode, results, prev, budget, calls>>

----------------------------------------------------------------------------
(* Bounds of the model *)

MaxQty == 2
MaxTime == 1
MaxHist == 2
MaxEnv == 3

SKUs == {"1001A", "2002B"}
Quantities == 0..MaxQty
RemoteQuantities == (0 - 1)..MaxQty
Prices == {0, 1, 2}
Descriptions == {"", "T1", "T2"}
RemoteTitles == {"", "T1", "T2"}
Accounts == {"valid", "expired", "none"}
Nets == {"ok", "failed"}

----------------------------------------------------------------------------
(* JavaScript values *)

None == <<>>
Some(v) == <<v>>
Undefined == "undefined"

\* a ?? d
Nullish(opt, d) == IF opt = None THEN d ELSE opt[1]
\* n || d for a number n that is not NaN
OrNum(n, d) == IF n = 0 THEN d ELSE n
\* s || d for a string s
OrStr(s, d) == IF s = "" THEN d ELSE s
Max(a, b) == IF a >= b THEN a ELSE b

\* new Date(): a Date object; toISOString(): its string form
DateAt(t) == [t |-> t, iso |-> FALSE]
IsoAt(t) == [t |-> t, iso |-> TRUE]
\* a >= b on timestamps
NotBefore(a, b) == IF a.iso = b.iso THEN a.t >= b.t ELSE FALSE

\* a > b on timestamps: two Dates compare by value, two ISO strings
\* lexicographically (chronologically); a string against a Date is NaN > n
After(a, b) == IF a.iso = b.iso THEN a.t > b.t ELSE FALSE

----------------------------------------------------------------------------
(* Records *)

\* A HistoryEntry (date and note left out)
Entry(action, qty, newTotal) == [action |-> action, qty |-> qty, newTotal |-> newTotal]

\* A RemoteListing as getActiveListings returns it: the numeric value of the
\* quantity and price tags, and the title
Listing(q, p, t) == [quantity |-> q, price |-> p, title |-> t]

\* formatItem: the API shape of a record.  The key is SKU; the field named
\* sku does not exist on the result, so reading it gives undefined.
formatItem(sku, item) ==
    [SKU |-> sku, sku |-> Undefined, Price |-> OrNum(item.price, 0),
     Quantity |-> item.currentQty, Description |-> item.description]

\* data.getAllItems: every stored record, formatted
getAllItems == {formatItem(s, inventory[s][1]) : s \in {k \in SKUs : inventory[k] # None}}

\* data.getItem(sku): the stored record, or None (null); no record is stored
\* under the key undefined
getItem(inv, sku) == IF sku \in SKUs THEN inv[sku] ELSE None

\* the lastModified stamp data.updateItem writes: an ISO string in the JSON
\* backend, a Date in the document store
UpdateStamp(mode, t) == IF mode = "local" THEN IsoAt(t) ELSE DateAt(t)

\* data.updateItem(sku, updates): Object.assign / $set of the given fields,
\* plus lastModified
updateItem(mode, item, updates, t) ==
    [f \in DOMAIN item |->
        IF f = "lastModified" THEN UpdateStamp(mode, t)
        ELSE IF f \in DOMAIN updates THEN updates[f]
        ELSE item[f]]

\* data.addHistory(sku, entry): push the entry; the document store also
\* stamps lastModified
addHistory(mode, item, entry, t) ==
    [item EXCEPT !.history = Append(@, entry),
                 !.lastModified = IF mode = "local" THEN @ ELSE DateAt(t)]

----------------------------------------------------------------------------
(* Sync helper functions *)

\* captureEbaySnapshot stamping the epoch instead of the current time
captureEbaySnapshot_epoch(ebayItem, t) ==
    [quantity |-> OrNum(ebayItem.quantity, 0),
     price |-> OrNum(ebayItem.price, 0),
     title |-> OrStr(ebayItem.title, ""),
     takenAt |-> DateAt(0)]

\* captureEbaySnapshot leaving the price out of the snapshot
captureEbaySnapshot_noPrice(ebayItem, t) ==
    [quantity |-> OrNum(ebayItem.quantity, 0),
     price |-> 0,
     title |-> OrStr(ebayItem.title, ""),
     takenAt |-> DateAt(t)]

\* captureEbaySnapshot(ebayItem)
captureEbaySnapshot(ebayItem, t) ==
    [quantity |-> OrNum(ebayItem.quantity, 0),
     price |-> OrNum(ebayItem.price, 0),
     title |-> OrStr(ebayItem.title, ""),
     takenAt |-> DateAt(t)]

\* captureLocalSnapshot(localItem)
captureLocalSnapshot(localItem, t) ==
    [quantity |-> OrNum(localItem.currentQty, 0),
     price |-> OrNum(localItem.price, 0),
     title |-> OrStr(localItem.description, ""),
     takenAt |-> DateAt(t)]

\* detectEbayChanges without the sentinel: no change reported when there is
\* no snapshot
detectEbayChanges_noSentinel(currentEbay, snapshot) ==
    IF snapshot = None THEN << >>
    ELSE LET snap == snapshot[1]
         IN  (IF OrNum(currentEbay.quantity, 0) # snap.quantity
                THEN << [field |-> "quantity", old |-> snap.quantity,
                         new |-> OrNum(currentEbay.quantity, 0)] >>
                ELSE << >>)
             \o (IF OrNum(currentEbay.price, 0) # snap.price
                   THEN << [field |-> "price", old |-> snap.price,
                            new |-> OrNum(currentEbay.price, 0)] >>
                   ELSE << >>)
             \o (IF OrStr(currentEbay.title, "") # snap.title
                   THEN << [field |-> "title", old |-> snap.title,
                            new |-> OrStr(currentEbay.title, "")] >>
                   ELSE << >>)

\* detectEbayChanges comparing the price before the quantity
detectEbayChanges_priceFirst(currentEbay, snapshot) ==
    IF snapshot = None THEN << [field |-> "all"] >>
    ELSE LET snap == snapshot[1]
         IN  (IF OrNum(currentEbay.price, 0) # snap.price
                THEN << [field |-> "price", old |-> snap.price,
                         new |-> OrNum(currentEbay.price, 0)] >>
                ELSE << >>)
             \o (IF OrNum(currentEbay.quantity, 0) # snap.quantity
                   THEN << [field |-> "quantity", old |-> snap.quantity,
                            new |-> OrNum(currentEbay.quantity, 0)] >>
                   ELSE << >>)
             \o (IF OrStr(currentEbay.title, "") # snap.title
                   THEN << [field |-> "title", old |-> snap.title,
                            new |-> OrStr(currentEbay.title, "")] >>
                   ELSE << >>)

\* detectEbayChanges(currentEbay, snapshot): the change descriptors, in the
\* order quantity, price, title; the sentinel 'all' when there is no snapshot
detectEbayChanges(currentEbay, snapshot) ==
    IF snapshot = None THEN << [field |-> "all"] >>
    ELSE LET snap == snapshot[1]
             currentQty == OrNum(currentEbay.quantity, 0)
             currentPrice == OrNum(currentEbay.price, 0)
             currentTitle == OrStr(currentEbay.title, "")
         IN  (IF currentQty # snap.quantity
                THEN << [field |-> "quantity", old |-> snap.quantity, new |-> currentQty] >>
                ELSE << >>)
             \o (IF currentPrice # snap.price
                   THEN << [field |-> "price", old |-> snap.price, new |-> currentPrice] >>
                   ELSE << >>)
             \o (IF currentTitle # snap.title
                   THEN << [field |-> "title", old |-> snap.title, new |-> currentTitle] >>
                   ELSE << >>)

\* createLocalItemFromEbay without the EBAY_IMPORT entry
createLocalItemFromEbay_noEntry(ebayItem, t) ==
    [price |-> OrNum(ebayItem.price, 0),
     currentQty |-> OrNum(ebayItem.quantity, 0),
     description |-> OrStr(ebayItem.title, "eBay Item"),
     lastModified |-> DateAt(t),
     lastSyncedQty |-> Some(OrNum(ebayItem.quantity, 0)),
     snapshot |-> Some([quantity |-> OrNum(ebayItem.quantity, 0),
                        price |-> OrNum(ebayItem.price, 0),
                        title |-> OrStr(ebayItem.title, ""),
                        takenAt |-> DateAt(t)]),
     lastSyncTime |-> Some(DateAt(t)),
     history |-> << >>]

\* createLocalItemFromEbay(ebayItem)
createLocalItemFromEbay(ebayItem, t) ==
    [price |-> OrNum(ebayItem.price, 0),
     currentQty |-> OrNum(ebayItem.quantity, 0),
     description |-> OrStr(ebayItem.title, "eBay Item"),
     lastModified |-> DateAt(t),
     lastSyncedQty |-> Some(OrNum(ebayItem.quantity, 0)),
     snapshot |-> Some(captureEbaySnapshot(ebayItem, t)),
     lastSyncTime |-> Some(DateAt(t)),
     history |-> << Entry("EBAY_IMPORT", OrNum(ebayItem.quantity, 0), OrNum(ebayItem.quantity, 0)) >>]

----------------------------------------------------------------------------
(* Results of a sync call *)

\* What a call reported for one SKU: the result list it was put on ("none"
\* when on no list), the field names (pull's updated), the reason or error
\* text, and the units of a sales-list entry (0: no entry)
Outcome(list, fields, reason, sold) ==
    [list |-> list, fields |-> fields, reason |-> reason, sold |-> sold]
NoOutcome == Outcome("none", << >>, "", 0)

\* op: the call; status, error: "error" and the message when the call threw;
\* fetched: the listing fetch gave the listings (if not, push and smartSync
\* log the failure and go on without listings)
NoResults == [op |-> "none", status |-> "ok", error |-> "", fetched |-> FALSE,
              out |-> [s \in SKUs |-> NoOutcome]]

\* The smartSync calls that can be in flight together, and a call that has
\* not started.  impl: the code the call runs ("part_001" or "server");
\* pc: the await the call has reached; listing, fullItem: what its fetch and
\* its getItem returned; sold: what it pushed to results.sales; after: it
\* started when the other call had completed.
Calls == {1, 2}
IdleCall(impl) == [impl |-> impl, pc |-> "idle", listing |-> None, fullItem |-> None,
                   sold |-> 0, after |-> FALSE]
NoCalls == [c \in Calls |-> IdleCall("part_001")]

\* prev after a step that is no sync call
NoPrev == [inventory |-> [s \in SKUs |-> None], ebay |-> [s \in SKUs |-> None],
           account |-> "valid", now |-> 0]
\* prev after a sync call
Before == [inventory |-> inventory, ebay |-> ebay, account |-> account, now |-> now]

----------------------------------------------------------------------------
(* The account's credential and the remote listing fetch *)

\* ebayAPI.isAccountAuthenticated: an access token that has not expired
isAccountAuthenticated(acc) == acc = "valid"

\* The credential check that opens getActiveListings and apiRequest:
\* authenticated, or refreshed through the refresh token, or an error
Authenticate(acc, refreshOk) ==
    IF isAccountAuthenticated(acc) THEN [ok |-> TRUE, account |-> acc, error |-> ""]
    ELSE IF acc = "expired"
         THEN IF refreshOk THEN [ok |-> TRUE, account |-> "valid", error |-> ""]
              ELSE [ok |-> FALSE, account |-> acc, error |-> "Token refresh failed"]
         ELSE [ok |-> FALSE, account |-> acc, error |-> "Account not authenticated"]

\* ebayAPI.getActiveListings(accountId): throws on a missing credential;
\* a failed request (net = "failed") comes back as an error response: no
\* items, and the error's ShortMessage in the error field
getActiveListings(acc, refreshOk, net) ==
    LET auth == Authenticate(acc, refreshOk)
    IN  IF ~auth.ok
          THEN [threw |-> TRUE, message |-> auth.error, account |-> auth.account,
                items |-> [s \in SKUs |-> None], error |-> ""]
        ELSE IF net = "failed"
          THEN [threw |-> FALSE, message |-> "", account |-> auth.account,
                items |-> [s \in SKUs |-> None], error |-> "Request failed"]
        ELSE [threw |-> FALSE, message |-> "", account |-> auth.account,
              items |-> ebay, error |-> ""]

----------------------------------------------------------------------------
(* Pull: eBay -> local *)

\* updates[k] = v on an updates object (<< >> is the empty object)
Put(updates, k, v) == IF DOMAIN updates = {} THEN (k :> v) ELSE (k :> v) @@ updates

\* snapshot?.quantity ?? lastSyncedQty ?? currentQty
BaselineQty(item) ==
    IF item.snapshot # None THEN item.snapshot[1].quantity
    ELSE Nullish(item.lastSyncedQty, item.currentQty)

\* Math.max(0, localQty - sold)
DeductSale(localQty, sold) == Max(0, localQty - sold)

\* localModified > (lastSyncTime || new Date(0))
LocalIsNewer(localItem) ==
    After(localItem.lastModified, Nullish(localItem.lastSyncTime, DateAt(0)))

\* The local value of a tracked field
LocalValue(localItem, field) ==
    CASE field = "quantity" -> localItem.currentQty
      [] field = "price" -> localItem.price
      [] field = "title" -> localItem.description

\* One turn of pull's loop over the detected changes.  acc.updates is the
\* updates object, acc.changedFields the field names, acc.stored the stored
\* record (data.addHistory writes to it at once).
PullChange(acc, change, localItem, ebayItem, mode, t) ==
    IF change.field = "all"
      THEN [acc EXCEPT
              !.updates = Put(Put(@, "price", OrNum(ebayItem.price, localItem.price)),
                              "description", OrStr(ebayItem.title, localItem.description)),
              !.changedFields = @ \o << "price", "title" >>]
    ELSE
      LET localValue == LocalValue(localItem, change.field)
          snapshotValue == localItem.snapshot[1][change.field]
          localChangedSinceSync == localValue # snapshotValue
      IN  IF ~localChangedSinceSync
            THEN LET oldQty == BaselineQty(localItem)
                     sold == oldQty - change.new
                     newQty == DeductSale(localItem.currentQty, sold)
                 IN  IF change.field = "quantity"
                       THEN IF change.new < oldQty
                              THEN [acc EXCEPT
                                      !.updates = Put(@, "currentQty", newQty),
                                      !.stored = addHistory(mode, @, Entry("EBAY_SALE", 0 - sold, newQty), t),
                                      !.changedFields = Append(@, "quantity")]
                              ELSE [acc EXCEPT !.changedFields = Append(@, "quantity")]
                     ELSE IF change.field = "price"
                       THEN [acc EXCEPT !.updates = Put(@, "price", change.new),
                                        !.changedFields = Append(@, "price")]
                     ELSE [acc EXCEPT !.updates = Put(@, "description", change.new),
                                      !.changedFields = Append(@, "title")]
          ELSE IF ~LocalIsNewer(localItem)
            THEN IF change.field = "price"
                   THEN [acc EXCEPT !.updates = Put(@, "price", change.new),
                                    !.changedFields = Append(@, "price")]
                 ELSE IF change.field = "title"
                   THEN [acc EXCEPT !.updates = Put(@, "description", change.new),
                                    !.changedFields = Append(@, "title")]
                 ELSE [acc EXCEPT !.changedFields = Append(@, "quantity")]
          ELSE acc

RECURSIVE PullChanges(_, _, _, _, _, _)
PullChanges(acc, changes, localItem, ebayItem, mode, t) ==
    IF changes = << >> THEN acc
    ELSE PullChanges(PullChange(acc, Head(changes), localItem, ebayItem, mode, t),
                     Tail(changes), localItem, ebayItem, mode, t)

\* The body of pull's loop for one remote item: the stored record afterwards
\* and what was reported.  t is the time new Date() gives in the handler, t2
\* the time the store stamps the write.
PullItem(mode, localItem, ebayItem, t, t2) ==
    IF localItem = None
      THEN [item |-> Some(createLocalItemFromEbay(ebayItem, t)),
            out |-> Outcome("created", << >>, "ebay", 0)]
    ELSE
      LET L == localItem[1]
          ebayChanges == detectEbayChanges(ebayItem, L.snapshot)
          empty == [updates |-> << >>, changedFields |-> << >>, stored |-> L]
          acc == PullChanges(empty, ebayChanges, L, ebayItem, mode, t)
          updates == Put(Put(Put(acc.updates,
                        "snapshot", Some(captureEbaySnapshot(ebayItem, t))),
                        "lastSyncTime", Some(DateAt(t))),
                        "lastSyncedQty", Some(OrNum(ebayItem.quantity, L.currentQty)))
      IN  IF ebayChanges = << >>
            THEN [item |-> localItem, out |-> Outcome("skipped", << >>, "No eBay changes", 0)]
          ELSE IF DOMAIN acc.updates # {}
            THEN [item |-> Some(updateItem(mode, acc.stored, updates, t2)),
                  out |-> Outcome("updated", acc.changedFields, "", 0)]
          ELSE [item |-> Some(acc.stored),
                out |-> Outcome("skipped", << >>, "Local changes are newer", 0)]

\* No history has reached the bound of the model
HistLen(item) == IF item = None THEN 0 ELSE Len(item[1].history)
HistRoom == \A s \in SKUs : HistLen(inventory[s]) < MaxHist

\* ebayAPI.pullFromEbay(accountId)
pullFromEbay(refreshOk, net, d) ==
    LET fetch == getActiveListings(account, refreshOk, net)
        R(s) == PullItem(dbMode, inventory[s], fetch.items[s][1], now, now + d)
    IN  /\ HistRoom
        /\ now + d <= MaxTime
        /\ account' = fetch.account
        /\ IF fetch.threw \/ fetch.error # ""
             THEN /\ inventory' = inventory
                  /\ results' = [NoResults EXCEPT !.op = "pull", !.status = "error",
                                   !.error = IF fetch.threw THEN fetch.message ELSE fetch.error]
                  /\ now' = now
             ELSE /\ inventory' = [s \in SKUs |->
                                     IF fetch.items[s] = None THEN inventory[s] ELSE R(s).item]
                  /\ results' = [NoResults EXCEPT !.op = "pull", !.fetched = TRUE,
                                   !.out = [s \in SKUs |->
                                     IF fetch.items[s] = None THEN NoOutcome ELSE R(s).out]]
                  /\ now' = now + d
        /\ prev' = Before
        /\ UNCHANGED <<ebay, dbMode, budget, calls>>

----------------------------------------------------------------------------
(* Remote writes *)

\* The listing the remote side holds after createOrUpdateInventoryItem with
\* the body syncItemToEbay builds: the quantity and the title of the
\* warehouse item.  The body carries no price: an existing listing keeps
\* its own, a new one has none (read back as 0).
syncItemToEbay(listing, warehouseItem) ==
    Some(Listing(warehouseItem.Quantity,
                 IF listing = None THEN 0 ELSE listing[1].price,
                 OrStr(warehouseItem.Description, "Item")))

\* The argument the sync operations build from the full record
WarehouseItem(fullItem, quantity) ==
    [Price |-> OrNum(fullItem.price, 0), Quantity |-> quantity,
     Description |-> fullItem.description]

\* SyncTracking recording the quantity the record had before the call
SyncTracking_staleQty(fullItem, quantity, t) ==
    Put(Put(Put(<< >>, "lastSyncedQty", Some(fullItem.currentQty)),
            "snapshot", Some(captureLocalSnapshot(fullItem, t))),
        "lastSyncTime", Some(DateAt(t)))

\* The sync tracking written after a successful write to eBay
SyncTracking(fullItem, quantity, t) ==
    Put(Put(Put(<< >>, "lastSyncedQty", Some(quantity)),
            "snapshot", Some(captureLocalSnapshot([fullItem EXCEPT !.currentQty = quantity], t))),
        "lastSyncTime", Some(DateAt(t)))

----------------------------------------------------------------------------
(* Push: local -> eBay *)

\* The local value push compares a changed field with (none for the title)
PushLocalValue(fullItem, field) ==
    CASE field = "quantity" -> Some(fullItem.currentQty)
      [] field = "price" -> Some(fullItem.price)
      [] OTHER -> None

\* One turn of push's loop over the detected changes: the reasons so far
PushChange(skippedReasons, change, fullItem) ==
    IF change.field = "all" THEN skippedReasons
    ELSE
      LET localValue == PushLocalValue(fullItem, change.field)
          snapshotValue == Some(fullItem.snapshot[1][change.field])
          localChangedSinceSync == localValue # snapshotValue
      IN  IF ~localChangedSinceSync /\ localValue # Some(change.new)
            THEN Append(skippedReasons, "eBay has newer")
          ELSE IF localChangedSinceSync /\ localValue # Some(change.new)
                  /\ ~LocalIsNewer(fullItem)
            THEN Append(skippedReasons, "eBay is newer")
          ELSE skippedReasons

RECURSIVE PushChanges(_, _, _)
PushChanges(skippedReasons, changes, fullItem) ==
    IF changes = << >> THEN skippedReasons
    ELSE PushChanges(PushChange(skippedReasons, Head(changes), fullItem), Tail(changes), fullItem)

\* The body of push's loop for one stored record: the record and the
\* listing afterwards and what was reported.  writeOk: the request to eBay
\* succeeds.
PushItem(mode, fullItem, ebayItem, listing, t, t2, writeOk) ==
    LET ebayChanges == detectEbayChanges(ebayItem[1], fullItem.snapshot)
        skippedReasons == PushChanges(<< >>, ebayChanges, fullItem)
        written == [item |-> Some(updateItem(mode, fullItem,
                                 SyncTracking(fullItem, fullItem.currentQty, t), t2)),
                    remote |-> syncItemToEbay(listing, WarehouseItem(fullItem, fullItem.currentQty))]
        failed == [item |-> Some(fullItem), remote |-> listing,
                   out |-> Outcome("errors", << >>, "request failed", 0)]
    IN  IF ebayItem = None
          THEN IF writeOk
                 THEN written @@ [out |-> Outcome("created", << >>, "", 0)]
                 ELSE failed
        ELSE IF Len(skippedReasons) > 0 /\ Len(skippedReasons) >= Len(ebayChanges)
          THEN [item |-> Some(fullItem), remote |-> listing,
                out |-> Outcome("skipped", << >>, "eBay is newer", 0)]
        ELSE IF writeOk
          THEN written @@ [out |-> Outcome("pushed", << >>, "", 0)]
        ELSE failed

\* The keys the loops of push and smartSync read off the formatted items
\* (item.sku)
LocalKeys == {item.sku : item \in getAllItems}

\* The listings by key as push and smartSync collect them: none when the
\* fetch threw (the error is logged and dropped)
EbayInventory(fetch) == IF fetch.threw THEN [s \in SKUs |-> None] ELSE fetch.items

\* ebayAPI.pushToEbay(accountId)
pushToEbay(refreshOk, net, d, fail) ==
    LET fetch == getActiveListings(account, refreshOk, net)
        ebayInventory == EbayInventory(fetch)
        handled == {s \in SKUs : s \in LocalKeys /\ getItem(inventory, s) # None}
        writeOk(s) == isAccountAuthenticated(fetch.account) /\ s \notin fail
        R(s) == PushItem(dbMode, inventory[s][1], ebayInventory[s], ebay[s], now, now + d, writeOk(s))
    IN  /\ HistRoom
        /\ now + d <= MaxTime
        /\ fail \subseteq handled
        /\ account' = fetch.account
        /\ inventory' = [s \in SKUs |-> IF s \in handled THEN R(s).item ELSE inventory[s]]
        /\ ebay' = [s \in SKUs |-> IF s \in handled THEN R(s).remote ELSE ebay[s]]
        /\ results' = [NoResults EXCEPT !.op = "push",
                         !.fetched = ~fetch.threw /\ fetch.error = "",
                         !.out = [s \in SKUs |-> IF s \in handled THEN R(s).out ELSE NoOutcome]]
        /\ now' = now + d
        /\ prev' = Before
        /\ UNCHANGED <<dbMode, budget, calls>>

----------------------------------------------------------------------------
(* Smart sync: two-way, with sales detection *)

\* Step 3 of smartSyncAll for one item present on both sides
SmartPairItem(mode, fullItem, ebayItem, listing, t, t2, writeOk) ==
    LET snapshotQty == BaselineQty(fullItem)
        ebayQty == OrNum(ebayItem.quantity, 0)
        localQty == fullItem.currentQty
        salesDetected == IF ebayQty < snapshotQty THEN snapshotQty - ebayQty ELSE 0
        finalQty == IF ebayQty < snapshotQty THEN DeductSale(localQty, salesDetected) ELSE localQty
        stored == IF ebayQty < snapshotQty
                    THEN addHistory(mode, fullItem, Entry("EBAY_SALE", 0 - salesDetected, finalQty), t)
                    ELSE fullItem
    IN  IF writeOk
          THEN [item |-> Some(updateItem(mode, stored,
                                Put(SyncTracking(fullItem, finalQty, t), "currentQty", finalQty), t2)),
                remote |-> syncItemToEbay(listing, WarehouseItem(fullItem, finalQty)),
                out |-> Outcome("updated", << >>, "", salesDetected)]
          ELSE [item |-> Some(stored), remote |-> listing,
                out |-> Outcome("errors", << >>, "request failed", salesDetected)]

\* data.createItem(itemData): the JSON backend stores the record under its
\* key, over any record already there; the document store refuses a second
\* record with the same sku (unique index)
createItem(mode, existing, itemData) ==
    IF mode = "local" \/ existing = None
      THEN [threw |-> FALSE, item |-> Some(itemData)]
      ELSE [threw |-> TRUE, item |-> existing]

\* Step 4 of smartSyncAll for one listing that was not paired
SmartImportItem(mode, existing, ebayItem, t) ==
    LET made == createItem(mode, existing, createLocalItemFromEbay(ebayItem, t))
    IN  IF made.threw
          THEN [item |-> made.item, out |-> Outcome("errors", << >>, "Import failed", 0)]
          ELSE [item |-> made.item, out |-> Outcome("imported", << >>, "", 0)]

\* The loop of step 4 given up at the first listing whose import fails
Step4Skus_stopAtError(ebayInventory, processedSkus) ==
    LET all == {s \in SKUs : ebayInventory[s] # None /\ s \notin processedSkus}
        failing == {s \in all : SmartImportItem(dbMode, inventory[s], ebayInventory[s][1], now).out.list = "errors"}
    IN  IF "1001A" \in failing THEN all \ {"2002B"} ELSE all

\* The listings step 4 of smartSyncAll works on: every fetched listing whose
\* key step 3 did not take, whatever happened to the ones before it
Step4Skus(ebayInventory, processedSkus) ==
    {s \in SKUs : ebayInventory[s] # None /\ s \notin processedSkus}

\* Step 5 of smartSyncAll for one local record without a listing
SmartExportItem(mode, fullItem, listing, t, t2, writeOk) ==
    IF writeOk
      THEN [item |-> Some(updateItem(mode, fullItem,
                            SyncTracking(fullItem, fullItem.currentQty, t), t2)),
            remote |-> syncItemToEbay(listing, WarehouseItem(fullItem, fullItem.currentQty)),
            out |-> Outcome("exported", << >>, "", 0)]
      ELSE [item |-> Some(fullItem), remote |-> listing,
            out |-> Outcome("errors", << >>, "Export failed", 0)]

\* ebayAPI.smartSyncAll(accountId) of src/unnamed/part_001
smartSyncAll(refreshOk, net, d, fail) ==
    LET fetch == getActiveListings(account, refreshOk, net)
        ebayInventory == EbayInventory(fetch)
        listed == {s \in SKUs : ebayInventory[s] # None}
        \* localMap is keyed by item.sku
        processedSkus == {s \in listed : s \in LocalKeys}
        paired == {s \in processedSkus : getItem(inventory, s) # None}
        imports == Step4Skus(ebayInventory, processedSkus)
        exports == {s \in SKUs : /\ s \in LocalKeys
                                 /\ s \notin processedSkus
                                 /\ ebayInventory[s] = None
                                 /\ getItem(inventory, s) # None}
        writeOk(s) == isAccountAuthenticated(fetch.account) /\ s \notin fail
        P(s) == SmartPairItem(dbMode, inventory[s][1], ebayInventory[s][1], ebay[s], now, now + d, writeOk(s))
        I(s) == SmartImportItem(dbMode, inventory[s], ebayInventory[s][1], now)
        X(s) == SmartExportItem(dbMode, inventory[s][1], ebay[s], now, now + d, writeOk(s))
    IN  /\ HistRoom
        /\ now + d <= MaxTime
        /\ fail \subseteq (paired \cup exports)
        /\ account' = fetch.account
        /\ inventory' = [s \in SKUs |->
                           IF s \in paired THEN P(s).item
                           ELSE IF s \in imports THEN I(s).item
                           ELSE IF s \in exports THEN X(s).item
                           ELSE inventory[s]]
        /\ ebay' = [s \in SKUs |->
                      IF s \in paired THEN P(s).remote
                      ELSE IF s \in exports THEN X(s).remote
                      ELSE ebay[s]]
        /\ results' = [NoResults EXCEPT !.op = "smartSync",
                         !.fetched = ~fetch.threw /\ fetch.error = "",
                         !.out = [s \in SKUs |->
                           IF s \in paired THEN P(s).out
                           ELSE IF s \in imports THEN I(s).out
                           ELSE IF s \in exports THEN X(s).out
                           ELSE NoOutcome]]
        /\ now' = now + d
        /\ prev' = Before
        /\ UNCHANGED <<dbMode, budget, calls>>

----------------------------------------------------------------------------
(* The smart sync of src/server.js: quantities only, against lastSyncedQty *)

\* The body of the loop for one local record.  ebayQty: the quantity of the
\* remote inventory item, None when eBay has none.
ServerSyncItem(mode, fullItem, ebayQty, listing, t, t2, writeOk) ==
    LET localQty == fullItem.currentQty
        lastSyncedQty == Nullish(fullItem.lastSyncedQty, localQty)
        salesDetected == IF ebayQty = None THEN 0 ELSE Max(0, lastSyncedQty - ebayQty[1])
        finalQty == IF salesDetected > 0 THEN DeductSale(localQty, salesDetected) ELSE localQty
        stored == IF salesDetected > 0
                    THEN addHistory(mode,
                           updateItem(mode, fullItem,
                             Put(Put(<< >>, "currentQty", finalQty), "lastSyncedQty", Some(finalQty)), t),
                           Entry("EBAY_SALE", 0 - salesDetected, finalQty), t)
                    ELSE fullItem
    IN  IF writeOk
          THEN [item |-> Some(updateItem(mode, stored, Put(<< >>, "lastSyncedQty", Some(finalQty)), t2)),
                remote |-> syncItemToEbay(listing, WarehouseItem(fullItem, finalQty)),
                out |-> Outcome("success", << >>, "", salesDetected)]
          ELSE [item |-> Some(stored), remote |-> listing,
                out |-> Outcome("failed", << >>, "request failed", salesDetected)]

\* ebayAPI.smartSyncAll(accountId) of src/server.js
smartSyncAll_server(refreshOk, net, d, fail) ==
    LET fetch == getActiveListings(account, refreshOk, net)
        fetched == ~fetch.threw /\ fetch.error = ""
        ebayInventory == [s \in SKUs |->
                            IF fetched /\ fetch.items[s] # None
                              THEN Some(OrNum(fetch.items[s][1].quantity, 0))
                              ELSE None]
        handled == {s \in SKUs : s \in {item.SKU : item \in getAllItems}
                                 /\ getItem(inventory, s) # None}
        writeOk(s) == isAccountAuthenticated(fetch.account) /\ s \notin fail
        R(s) == ServerSyncItem(dbMode, inventory[s][1], ebayInventory[s], ebay[s], now, now + d, writeOk(s))
    IN  /\ HistRoom
        /\ now + d <= MaxTime
        /\ fail \subseteq handled
        /\ account' = fetch.account
        /\ inventory' = [s \in SKUs |-> IF s \in handled THEN R(s).item ELSE inventory[s]]
        /\ ebay' = [s \in SKUs |-> IF s \in handled THEN R(s).remote ELSE ebay[s]]
        /\ results' = [NoResults EXCEPT !.op = "smartSync_server",
                         !.fetched = ~fetch.threw /\ fetch.error = "",
                         !.out = [s \in SKUs |-> IF s \in handled THEN R(s).out ELSE NoOutcome]]
        /\ now' = now + d
        /\ prev' = Before
        /\ UNCHANGED <<dbMode, budget, calls>>

----------------------------------------------------------------------------
(* Local edits, the remote side, the credential and the clock *)

\* POST /api/inventory for a new item code and a free location: the record
\* is created with a CREATE entry
PostInventory(s, quantity, price, description) ==
    /\ budget > 0
    /\ inventory[s] = None
    /\ inventory' = [inventory EXCEPT ![s] = Some(
           [price |-> OrNum(price, 0),
            currentQty |-> quantity,
            description |-> description,
            lastModified |-> DateAt(now),
            lastSyncedQty |-> None,
            snapshot |-> None,
            lastSyncTime |-> None,
            history |-> << Entry("CREATE", quantity, quantity) >>])]
    /\ budget' = budget - 1
    /\ results' = NoResults
    /\ prev' = NoPrev
    /\ UNCHANGED <<ebay, account, now, dbMode, calls>>

\* PUT /api/inventory/:sku with one of quantity, price, description in the
\* body
PutInventory(s, field, value) ==
    /\ budget > 0
    /\ inventory[s] # None
    /\ HistRoom
    /\ LET item == inventory[s][1]
           diff == value - item.currentQty
           logged == addHistory(dbMode, item,
                        Entry(IF diff >= 0 THEN "ADJUST_UP" ELSE "ADJUST_DOWN", diff, value), now)
       IN  inventory' = [inventory EXCEPT ![s] = Some(
               IF field = "quantity"
                 THEN updateItem(dbMode, logged, Put(<< >>, "currentQty", value), now)
                 ELSE updateItem(dbMode, item, Put(<< >>, field, value), now))]
    /\ budget' = budget - 1
    /\ results' = NoResults
    /\ prev' = NoPrev
    /\ UNCHANGED <<ebay, account, now, dbMode, calls>>

\* POST /api/import/full with one item in the backup: an existing record
\* takes every field of the uploaded item, its history included (none in
\* the upload: an empty one); a new record is created from it
ImportFull(s, item) ==
    /\ budget > 0
    /\ LET itemData == [price |-> OrNum(item.price, 0),
                        currentQty |-> OrNum(item.currentQty, 0),
                        description |-> OrStr(item.description, ""),
                        history |-> item.history]
           made == itemData @@
                   [lastModified |-> DateAt(now), lastSyncedQty |-> None,
                    snapshot |-> None, lastSyncTime |-> None]
       IN  inventory' = [inventory EXCEPT ![s] =
               IF inventory[s] # None
                 THEN Some(updateItem(dbMode, inventory[s][1], itemData, now))
                 ELSE createItem(dbMode, None, made).item]
    /\ budget' = budget - 1
    /\ results' = NoResults
    /\ prev' = NoPrev
    /\ UNCHANGED <<ebay, account, now, dbMode, calls>>

\* A listing for the SKU appears on eBay
ListingAppears(s, listing) ==
    /\ budget > 0
    /\ ebay[s] = None
    /\ ebay' = [ebay EXCEPT ![s] = Some(listing)]
    /\ budget' = budget - 1
    /\ results' = NoResults
    /\ prev' = NoPrev
    /\ UNCHANGED <<inventory, account, now, dbMode, calls>>

\* One field of a listing changes on eBay: a buyer purchases (the quantity
\* drops), the seller revises the quantity, the price or the title
ListingChanges(s, field, value) ==
    /\ budget > 0
    /\ ebay[s] # None
    /\ ebay[s][1][field] # value
    /\ ebay' = [ebay EXCEPT ![s] = Some([@[1] EXCEPT ![field] = value])]
    /\ budget' = budget - 1
    /\ results' = NoResults
    /\ prev' = NoPrev
    /\ UNCHANGED <<inventory, account, now, dbMode, calls>>

\* The access token expires, the account is disconnected or reconnected
AccountChange(acc) ==
    /\ budget > 0
    /\ account # acc
    /\ account' = acc
    /\ budget' = budget - 1
    /\ results' = NoResults
    /\ prev' = NoPrev
    /\ UNCHANGED <<inventory, ebay, now, dbMode, calls>>

\* What JSON.stringify then JSON.parse make of a record: every Date an ISO
\* string
JsonRoundTrip(item) ==
    [item EXCEPT !.lastModified = IsoAt(@.t),
                 !.lastSyncTime = IF @ = None THEN None ELSE Some(IsoAt(@[1].t)),
                 !.snapshot = IF @ = None THEN None
                              ELSE Some([@[1] EXCEPT !.takenAt = IsoAt(@.t)])]

\* The process restarts on the JSON backend: loadLocalData reads what
\* saveLocalData wrote
Restart ==
    /\ budget > 0
    /\ dbMode = "local"
    /\ inventory' = [s \in SKUs |->
                       IF inventory[s] = None THEN None ELSE Some(JsonRoundTrip(inventory[s][1]))]
    /\ inventory' # inventory
    /\ budget' = budget - 1
    /\ results' = NoResults
    /\ prev' = NoPrev
    /\ UNCHANGED <<ebay, account, now, dbMode, calls>>

\* Time passes
Tick ==
    /\ now < MaxTime
    /\ now' = now + 1
    /\ results' = NoResults
    /\ prev' = NoPrev
    /\ UNCHANGED <<inventory, ebay, account, dbMode, budget, calls>>

\* The inputs of the environment's steps
NewListings == {Listing(q, 1, "T1") : q \in 1..MaxQty}
ListingEdits == ({"quantity"} \X RemoteQuantities) \cup ({"price"} \X Prices)
                   \cup ({"title"} \X RemoteTitles)
\* The items of an uploaded backup: a record as /api/export/full wrote it,
\* and an item without a history key
Backups == {[price |-> 1, currentQty |-> MaxQty, description |-> "T1", history |-> h] :
               h \in {<< >>, << Entry("CREATE", MaxQty, MaxQty) >>}}
PutBodies == ({"quantity"} \X ((0 - 1)..MaxQty)) \cup ({"price"} \X Prices)
                \cup ({"description"} \X Descriptions)

Init ==
    /\ inventory = [s \in SKUs |-> None]
    /\ ebay = [s \in SKUs |-> None]
    /\ account = "valid"
    /\ now = 0
    /\ dbMode \in {"local", "mongodb"}
    /\ results = NoResults
    /\ prev = NoPrev
    /\ budget = MaxEnv
    /\ calls = NoCalls

\* The inputs of a sync call: whether a token refresh succeeds (asked only
\* of an expired token), the outcome of the listing fetch, the time the call
\* takes, the SKUs whose write to eBay fails
RefreshOutcomes == IF account = "expired" THEN BOOLEAN ELSE {TRUE}
Durations == IF now < MaxTime THEN {0, 1} ELSE {0}

Next ==
    \/ \E refreshOk \in RefreshOutcomes, net \in Nets, d \in Durations :
          pullFromEbay(refreshOk, net, d)
    \/ \E refreshOk \in RefreshOutcomes, net \in Nets, d \in Durations, fail \in SUBSET SKUs :
          pushToEbay(refreshOk, net, d, fail)
    \/ \E refreshOk \in RefreshOutcomes, net \in Nets, d \in Durations, fail \in SUBSET SKUs :
          smartSyncAll(refreshOk, net, d, fail)
    \/ \E s \in SKUs, q \in 1..MaxQty : PostInventory(s, q, 1, "T1")
    \/ \E s \in SKUs, b \in PutBodies : PutInventory(s, b[1], b[2])
    \/ \E s \in SKUs, item \in Backups : ImportFull(s, item)
    \/ \E s \in SKUs, l \in NewListings : ListingAppears(s, l)
    \/ \E s \in SKUs, e \in ListingEdits : ListingChanges(s, e[1], e[2])
    \/ \E acc \in Accounts : AccountChange(acc)
    \/ Restart
    \/ Tick

\* The server of src/unnamed/part_001 with its environment
Spec == Init /\ [][Next]_vars

\* The server of src/server.js with its environment: its only sync call is
\* its own smartSyncAll
ServerNext ==
    \/ \E refreshOk \in RefreshOutcomes, net \in Nets, d \in Durations, fail \in SUBSET SKUs :
          smartSyncAll_server(refreshOk, net, d, fail)
    \/ \E s \in SKUs, q \in 1..MaxQty : PostInventory(s, q, 1, "T1")
    \/ \E s \in SKUs, b \in PutBodies : PutInventory(s, b[1], b[2])
    \/ \E s \in SKUs, item \in Backups : ImportFull(s, item)
    \/ \E s \in SKUs, l \in NewListings : ListingAppears(s, l)
    \/ \E s \in SKUs, e \in ListingEdits : ListingChanges(s, e[1], e[2])
    \/ \E acc \in Accounts : AccountChange(acc)
    \/ Restart
    \/ Tick

ServerSpec == Init /\ [][ServerNext]_vars

----------------------------------------------------------------------------
(* The sync calls as requests: POST /api/ebay/pull, /push and /sync-all     *)
(* check the credential before they call the method.                        *)

\* The 401 response of a sync route: nothing is called, nothing changes
Rejected(op) ==
    /\ results' = [NoResults EXCEPT !.op = op, !.status = "error",
                     !.error = "eBay account not connected"]
    /\ prev' = Before
    /\ UNCHANGED <<inventory, ebay, account, now, dbMode, budget, calls>>

\* POST /api/ebay/pull/:accountId
PostPull(refreshOk, net, d) ==
    IF isAccountAuthenticated(account) THEN pullFromEbay(refreshOk, net, d)
    ELSE Rejected("pull")

\* POST /api/ebay/push/:accountId
PostPush(refreshOk, net, d, fail) ==
    IF isAccountAuthenticated(account) THEN pushToEbay(refreshOk, net, d, fail)
    ELSE fail = {} /\ Rejected("push")

\* POST /api/ebay/sync-all/:accountId
PostSyncAll(refreshOk, net, d, fail) ==
    IF isAccountAuthenticated(account) THEN smartSyncAll(refreshOk, net, d, fail)
    ELSE fail = {} /\ Rejected("smartSync")

RouteNext ==
    \/ \E refreshOk \in RefreshOutcomes, net \in Nets, d \in Durations :
          PostPull(refreshOk, net, d)
    \/ \E refreshOk \in RefreshOutcomes, net \in Nets, d \in Durations, fail \in SUBSET SKUs :
          PostPush(refreshOk, net, d, fail)
    \/ \E refreshOk \in RefreshOutcomes, net \in Nets, d \in Durations, fail \in SUBSET SKUs :
          PostSyncAll(refreshOk, net, d, fail)
    \/ \E s \in SKUs, q \in 1..MaxQty : PostInventory(s, q, 1, "T1")
    \/ \E s \in SKUs, b \in PutBodies : PutInventory(s, b[1], b[2])
    \/ \E s \in SKUs, item \in Backups : ImportFull(s, item)
    \/ \E s \in SKUs, l \in NewListings : ListingAppears(s, l)
    \/ \E s \in SKUs, e \in ListingEdits : ListingChanges(s, e[1], e[2])
    \/ \E acc \in Accounts : AccountChange(acc)
    \/ Restart
    \/ Tick

RouteSpec == Init /\ [][RouteNext]_vars

----------------------------------------------------------------------------
(* Step 3 of smartSyncAll on its own.  The loop of src/unnamed/part_001     *)
(* finds its local items through localMap[item.sku], which no record of     *)
(* Spec satisfies; this specification enters step 3 for a record and the    *)
(* listing of the same SKU, to check what the step does once entered.       *)

\* Records as POST /api/inventory and the create path of pull leave them
ReconcileRecords ==
    {[price |-> 1, currentQty |-> q, description |-> "T1", lastModified |-> DateAt(0),
      lastSyncedQty |-> None, snapshot |-> None, lastSyncTime |-> None,
      history |-> << Entry("CREATE", q, q) >>] : q \in 1..MaxQty}
    \cup {createLocalItemFromEbay(l, 0) : l \in NewListings}

ReconcileListings == {Listing(q, 1, "T1") : q \in Quantities}

ReconcileInit ==
    /\ inventory \in [SKUs -> {None} \cup {Some(r) : r \in ReconcileRecords}]
    /\ ebay \in [SKUs -> {None} \cup {Some(l) : l \in ReconcileListings}]
    /\ account = "valid"
    /\ now = 0
    /\ dbMode \in {"local", "mongodb"}
    /\ results = NoResults
    /\ prev = NoPrev
    /\ budget = 1
    /\ calls = NoCalls

\* The body of step 3 for the SKU s: the listing fetch succeeded, the
\* record and the listing were found
ReconcileStep(s, d, writeOk) ==
    LET P == SmartPairItem(dbMode, inventory[s][1], ebay[s][1], ebay[s], now, now + d, writeOk)
    IN  /\ inventory[s] # None
        /\ ebay[s] # None
        /\ HistRoom
        /\ now + d <= MaxTime
        /\ inventory' = [inventory EXCEPT ![s] = P.item]
        /\ ebay' = [ebay EXCEPT ![s] = P.remote]
        /\ results' = [NoResults EXCEPT !.op = "smartSync", !.fetched = TRUE,
                         !.out = [NoResults.out EXCEPT ![s] = P.out]]
        /\ now' = now + d
        /\ prev' = Before
        /\ UNCHANGED <<account, dbMode, budget, calls>>

ReconcileNext ==
    \/ \E s \in SKUs, d \in Durations, writeOk \in BOOLEAN : ReconcileStep(s, d, writeOk)
    \/ \E s \in SKUs, b \in PutBodies : PutInventory(s, b[1], b[2])
    \/ \E s \in SKUs, e \in ListingEdits : ListingChanges(s, e[1], e[2])

ReconcileSpec == ReconcileInit /\ [][ReconcileNext]_vars

----------------------------------------------------------------------------
(* The loop bodies of push and of step 3 entered for a record by its own    *)
(* SKU, together with pull: what the three calls do to a record that has a  *)
(* listing once the loops find it.  One SKU holds a record.                 *)

PairedInit ==
    /\ \E r \in ReconcileRecords :
          inventory = [s \in SKUs |-> IF s = "1001A" THEN Some(r) ELSE None]
    /\ \E l \in {None} \cup {Some(e) : e \in ReconcileListings} :
          ebay = [s \in SKUs |-> IF s = "1001A" THEN l ELSE None]
    /\ account = "valid"
    /\ now = 0
    /\ dbMode \in {"local", "mongodb"}
    /\ results = NoResults
    /\ prev = NoPrev
    /\ budget = 2
    /\ calls = NoCalls

\* The body of push's loop for the SKU s: the listing fetch succeeded and
\* the record was found
PushStep(s, d, writeOk) ==
    LET R == PushItem(dbMode, inventory[s][1], ebay[s], ebay[s], now, now + d, writeOk)
    IN  /\ inventory[s] # None
        /\ HistRoom
        /\ now + d <= MaxTime
        /\ inventory' = [inventory EXCEPT ![s] = R.item]
        /\ ebay' = [ebay EXCEPT ![s] = R.remote]
        /\ results' = [NoResults EXCEPT !.op = "push", !.fetched = TRUE,
                         !.out = [NoResults.out EXCEPT ![s] = R.out]]
        /\ now' = now + d
        /\ prev' = Before
        /\ UNCHANGED <<account, dbMode, budget, calls>>

PairedNext ==
    \/ \E s \in SKUs, d \in Durations, writeOk \in BOOLEAN : PushStep(s, d, writeOk)
    \/ \E s \in SKUs, d \in Durations, writeOk \in BOOLEAN : ReconcileStep(s, d, writeOk)
    \/ \E d \in Durations : pullFromEbay(TRUE, "ok", d)
    \/ \E s \in SKUs, b \in PutBodies : PutInventory(s, b[1], b[2])
    \/ \E s \in SKUs, e \in ListingEdits : ListingChanges(s, e[1], e[2])
    \/ Tick

PairedSpec == PairedInit /\ [][PairedNext]_vars

----------------------------------------------------------------------------
(* Two smartSync calls in flight.  POST /api/ebay/sync-all/:accountId       *)
(* starts smartSyncAll for every request and nothing serializes the calls:  *)
(* each await of the loop body is a point where the other call can run.     *)
(* One SKU holds a record and a listing, so each call's loop has one turn;  *)
(* for src/unnamed/part_001 the turn is step 3 as in ReconcileSpec.         *)

ConcurrentSku == "1001A"
Impls == {"part_001", "server"}

\* What the call computes from the record and the listing it read: the turn
\* as it would run alone with a successful write
CallAlone(call) ==
    IF call.impl = "server"
      THEN ServerSyncItem(dbMode, call.fullItem[1],
                          IF call.listing = None THEN None
                          ELSE Some(OrNum(call.listing[1].quantity, 0)),
                          call.listing, now, now, TRUE)
      ELSE SmartPairItem(dbMode, call.fullItem[1], call.listing[1], call.listing, now, now, TRUE)
CallSales(call) == CallAlone(call).out.sold
CallFinalQty(call) == CallAlone(call).item[1].currentQty

\* The tracking src/server.js stores after the write to eBay
ServerTracking_none(finalQty) == << >>
ServerTracking(finalQty) == Put(<< >>, "lastSyncedQty", Some(finalQty))

ConcurrentInit ==
    /\ \E r \in ReconcileRecords :
          inventory = [s \in SKUs |-> IF s = ConcurrentSku THEN Some(r) ELSE None]
    /\ \E l \in ReconcileListings :
          ebay = [s \in SKUs |-> IF s = ConcurrentSku THEN Some(l) ELSE None]
    /\ account = "valid"
    /\ now = 0
    /\ dbMode \in {"local", "mongodb"}
    /\ results = NoResults
    /\ prev = NoPrev
    /\ budget = 1
    /\ \E impl \in Impls : calls = [c \in Calls |-> IdleCall(impl)]

\* The call's listing fetch returns
CallFetch(c) ==
    /\ calls[c].pc = "idle"
    /\ calls' = [calls EXCEPT ![c].pc = "fetched",
                               ![c].listing = ebay[ConcurrentSku],
                               ![c].after = \A o \in Calls \ {c} : calls[o].pc = "done"]
    /\ UNCHANGED <<inventory, ebay, account, now, dbMode, results, prev, budget>>

\* data.getItem returns the record to the call
CallRead(c) ==
    /\ calls[c].pc = "fetched"
    /\ calls' = [calls EXCEPT ![c].pc = "read", ![c].fullItem = inventory[ConcurrentSku]]
    /\ UNCHANGED <<inventory, ebay, account, now, dbMode, results, prev, budget>>

\* src/server.js: the sale is deducted before it is logged
CallDeduct(c) ==
    LET call == calls[c]
        finalQty == CallFinalQty(call)
    IN  /\ call.pc = "read"
        /\ call.impl = "server"
        /\ CallSales(call) > 0
        /\ inventory' = [inventory EXCEPT ![ConcurrentSku] =
               Some(updateItem(dbMode, inventory[ConcurrentSku][1],
                      Put(Put(<< >>, "currentQty", finalQty), "lastSyncedQty", Some(finalQty)), now))]
        /\ calls' = [calls EXCEPT ![c].pc = "deducted"]
        /\ UNCHANGED <<ebay, account, now, dbMode, results, prev, budget>>

\* data.addHistory of the EBAY_SALE entry and results.sales.push
CallLog(c) ==
    LET call == calls[c]
        sold == CallSales(call)
    IN  /\ call.pc = IF call.impl = "server" THEN "deducted" ELSE "read"
        /\ sold > 0
        /\ inventory' = [inventory EXCEPT ![ConcurrentSku] =
               Some(addHistory(dbMode, inventory[ConcurrentSku][1],
                      Entry("EBAY_SALE", 0 - sold, CallFinalQty(call)), now))]
        /\ calls' = [calls EXCEPT ![c].pc = "logged", ![c].sold = sold]
        /\ UNCHANGED <<ebay, account, now, dbMode, results, prev, budget>>

\* syncItemToEbay with the reconciled quantity; a failed request ends the
\* turn in the catch
CallWrite(c, writeOk) ==
    LET call == calls[c]
    IN  /\ \/ call.pc = "logged"
           \/ call.pc = "read" /\ CallSales(call) = 0
        /\ IF writeOk
             THEN /\ ebay' = [ebay EXCEPT ![ConcurrentSku] =
                        syncItemToEbay(ebay[ConcurrentSku],
                                       WarehouseItem(call.fullItem[1], CallFinalQty(call)))]
                  /\ calls' = [calls EXCEPT ![c].pc = "written"]
             ELSE /\ ebay' = ebay
                  /\ calls' = [calls EXCEPT ![c].pc = "failed"]
        /\ UNCHANGED <<inventory, account, now, dbMode, results, prev, budget>>

\* The data.updateItem that records the sync, then the push to the result
\* list
CallTrack(c) ==
    LET call == calls[c]
        finalQty == CallFinalQty(call)
    IN  /\ call.pc = "written"
        /\ inventory' = [inventory EXCEPT ![ConcurrentSku] =
               Some(updateItem(dbMode, inventory[ConcurrentSku][1],
                      IF call.impl = "server"
                        THEN ServerTracking(finalQty)
                        ELSE Put(SyncTracking(call.fullItem[1], finalQty, now),
                                 "currentQty", finalQty),
                      now))]
        /\ calls' = [calls EXCEPT ![c].pc = "done"]
        /\ UNCHANGED <<ebay, account, now, dbMode, results, prev, budget>>

ConcurrentNext ==
    \/ \E c \in Calls : CallFetch(c)
    \/ \E c \in Calls : CallRead(c)
    \/ \E c \in Calls : CallDeduct(c)
    \/ \E c \in Calls : CallLog(c)
    \/ \E c \in Calls, writeOk \in BOOLEAN : CallWrite(c, writeOk)
    \/ \E c \in Calls : CallTrack(c)
    \/ \E q \in Quantities : PutInventory(ConcurrentSku, "quantity", q)

ConcurrentSpec == ConcurrentInit /\ [][ConcurrentNext]_vars

----------------------------------------------------------------------------
(* The change detector on its own: a listing as fetched and a stored        *)
(* snapshot (or none) are drawn, and the call returns its descriptors in    *)
(* results.                                                                 *)

DetectListings == {Listing(q, p, t) : q \in RemoteQuantities, p \in Prices, t \in RemoteTitles}
DetectSnapshots == {None} \cup {Some(captureEbaySnapshot(l, 0)) : l \in DetectListings}

DetectInit ==
    /\ inventory = [s \in SKUs |-> None]
    /\ ebay = [s \in SKUs |-> None]
    /\ account = "valid"
    /\ now = 0
    /\ dbMode \in {"local", "mongodb"}
    /\ \E e \in DetectListings, snapshot \in DetectSnapshots :
          results = [op |-> "none", currentEbay |-> e, snapshot |-> snapshot, changes |-> << >>]
    /\ prev = NoPrev
    /\ budget = 0
    /\ calls = NoCalls

\* ebayAPI.detectEbayChanges(currentEbay, snapshot) returns
Detect ==
    /\ results.op = "none"
    /\ results' = [results EXCEPT !.op = "detectEbayChanges",
                     !.changes = detectEbayChanges(results.currentEbay, results.snapshot)]
    /\ UNCHANGED <<inventory, ebay, account, now, dbMode, prev, budget, calls>>

DetectSpec == DetectInit /\ [][Detect]_vars

----------------------------------------------------------------------------
(* Properties.  A sync call leaves in prev the stores as it found them and  *)
(* in results what it returned, so a property of one call is a predicate on *)
(* the state after it.                                                      *)

SyncOps == {"pull", "push", "smartSync"}
TrackedFields == {"quantity", "price", "title"}

\* The last step was the call op and its listing fetch gave the listings
Fetched(op) == results.op = op /\ results.status = "ok" /\ results.fetched

\* The call found a record and a listing for the SKU
FoundBoth(s) == prev.inventory[s] # None /\ prev.ebay[s] # None

\* The call appended exactly the entry e to the record's history
Appended(s, e) ==
    /\ inventory[s] # None
    /\ inventory[s][1].history = Append(prev.inventory[s][1].history, e)

\* The call appended one EBAY_SALE entry to the record's history
SaleApplied(s) ==
    /\ prev.inventory[s] # None
    /\ inventory[s] # None
    /\ LET h == inventory[s][1].history
       IN  /\ Len(h) = Len(prev.inventory[s][1].history) + 1
           /\ h[Len(h)].action = "EBAY_SALE"

\* C1: sale arithmetic in smartSync.  For an item on both sides whose remote
\* quantity is below the baseline (snapshot quantity, else lastSyncedQty,
\* else currentQty), a smartSync that does not report an error for the item
\* sets currentQty to max(0, localQty - sold) with sold = baseline - remote,
\* appends exactly one EBAY_SALE entry (qty = -sold, newTotal = the new
\* currentQty) and reports the sale.
C1_SmartSyncSaleArithmetic ==
    \A s \in SKUs :
        (/\ Fetched("smartSync")
         /\ FoundBoth(s)
         /\ prev.ebay[s][1].quantity < BaselineQty(prev.inventory[s][1])
         /\ results.out[s].list # "errors")
        => LET L == prev.inventory[s][1]
               sold == BaselineQty(L) - prev.ebay[s][1].quantity
               newQty == Max(0, L.currentQty - sold)
           IN  /\ Appended(s, Entry("EBAY_SALE", 0 - sold, newQty))
               /\ inventory[s][1].currentQty = newQty
               /\ results.out[s].sold = sold

\* C2: smartSync pairs by SKU.  A SKU with a local record and a remote
\* listing goes through the reconcile step (it ends in updated, or in errors
\* for a failed write), is neither imported nor exported, and its record is
\* not replaced: the history the call found is still the start of its
\* history.
C2_SmartSyncPairsBySku ==
    \A s \in SKUs :
        (Fetched("smartSync") /\ FoundBoth(s))
        => /\ results.out[s].list \in {"updated", "errors"}
           /\ results.out[s].reason \notin {"Import failed", "Export failed"}
           /\ inventory[s] # None
           /\ LET h == prev.inventory[s][1].history
              IN  /\ Len(inventory[s][1].history) >= Len(h)
                  /\ SubSeq(inventory[s][1].history, 1, Len(h)) = h

\* C3: idempotence of smartSync.  A smartSync that follows a smartSync
\* without errors, nothing having changed in between, reports no sale, no
\* import and no export, and leaves every history and every currentQty as
\* they were.
C3_SmartSyncIdempotent ==
    [][(/\ Fetched("smartSync")
        /\ \A s \in SKUs : results.out[s].list # "errors"
        /\ results'.op = "smartSync" /\ results'.fetched)
       => \A s \in SKUs :
            /\ results'.out[s].sold = 0
            /\ results'.out[s].list \notin {"imported", "exported"}
            /\ (inventory[s] = None) = (inventory'[s] = None)
            /\ inventory[s] # None =>
                 /\ inventory'[s][1].history = inventory[s][1].history
                 /\ inventory'[s][1].currentQty = inventory[s][1].currentQty]_vars

\* C4: in pull, a remote quantity below the snapshot quantity is applied as
\* a sale (currentQty becomes max(0, currentQty - (snapshotQty - remoteQty))
\* and one EBAY_SALE entry is appended), whether or not the local quantity
\* differs from the snapshot quantity.  (Stated for remote quantities >= 0.)
C4_PullAppliesEverySale ==
    \A s \in SKUs :
        (/\ Fetched("pull")
         /\ FoundBoth(s)
         /\ prev.inventory[s][1].snapshot # None
         /\ prev.ebay[s][1].quantity >= 0
         /\ prev.ebay[s][1].quantity < prev.inventory[s][1].snapshot[1].quantity)
        => LET L == prev.inventory[s][1]
               sold == L.snapshot[1].quantity - prev.ebay[s][1].quantity
               newQty == Max(0, L.currentQty - sold)
           IN  /\ Appended(s, Entry("EBAY_SALE", 0 - sold, newQty))
               /\ inventory[s][1].currentQty = newQty

\* C5: no sync call makes a currentQty negative.  If every record the call
\* found had a currentQty >= 0, every record has one afterwards, whatever
\* quantities the remote side reported (records made by an import
\* included).
C5_CurrentQtyNeverNegative ==
    (/\ results.op \in SyncOps
     /\ \A s \in SKUs : prev.inventory[s] # None => prev.inventory[s][1].currentQty >= 0)
    => \A s \in SKUs : inventory[s] # None => inventory[s][1].currentQty >= 0

\* C6: without a usable credential the listing fetch fails with the
\* authentication error, and pull, push and smartSync end with that error:
\* no outcome for any item, no remote write, no local record changed.
C6_NoCredentialAbortsCall ==
    (results.op \in SyncOps /\ prev.account = "none")
    => /\ results.status = "error"
       /\ results.error = "Account not authenticated"
       /\ \A s \in SKUs : results.out[s] = NoOutcome
       /\ inventory = prev.inventory
       /\ ebay = prev.ebay

\* The pull found, for field f of the SKU, a conflict (the remote and the
\* local value both differ from the snapshot) on a record whose lastModified
\* equals its lastSyncTime
TiedConflict(s, f) ==
    /\ Fetched("pull")
    /\ FoundBoth(s)
    /\ LET L == prev.inventory[s][1]
       IN  /\ L.snapshot # None
           /\ L.lastSyncTime = Some(L.lastModified)
           /\ prev.ebay[s][1][f] # L.snapshot[1][f]
           /\ LocalValue(L, f) # L.snapshot[1][f]

\* C7 as stated: on a tied conflict on the price or the title, the local
\* value is kept (the remote value is not written to the record).
C7_TieKeepsLocal ==
    \A s \in SKUs, f \in {"price", "title"} :
        TiedConflict(s, f)
        => LocalValue(inventory[s][1], f) = LocalValue(prev.inventory[s][1], f)

\* C7: on a tied conflict on the price or the title, the remote value is
\* written to the record and the field is reported in updated; the local
\* value is kept only when lastModified is strictly later than lastSyncTime.
C7_TieTakesRemote ==
    \A s \in SKUs, f \in {"price", "title"} :
        TiedConflict(s, f)
        => /\ LocalValue(inventory[s][1], f) = prev.ebay[s][1][f]
           /\ results.out[s].list = "updated"
           /\ \E i \in DOMAIN results.out[s].fields : results.out[s].fields[i] = f

\* A pull has resolved a tied conflict between two different values
C7_Witness ==
    \E s \in SKUs, f \in {"price", "title"} :
        /\ TiedConflict(s, f)
        /\ prev.ebay[s][1][f] # LocalValue(prev.inventory[s][1], f)
        /\ LocalValue(inventory[s][1], f) = prev.ebay[s][1][f]

\* C8: in pull, a tracked field whose remote value differs from the snapshot
\* while the local value equals it takes the remote value, and the item is
\* reported as updated; a remote quantity change refreshes the snapshot.
\* (Stated for remote quantities >= 0.)
C8_RemoteOnlyChangeAccepted ==
    \A s \in SKUs, f \in TrackedFields :
        (/\ Fetched("pull")
         /\ FoundBoth(s)
         /\ prev.inventory[s][1].snapshot # None
         /\ prev.ebay[s][1].quantity >= 0
         /\ prev.ebay[s][1][f] # prev.inventory[s][1].snapshot[1][f]
         /\ LocalValue(prev.inventory[s][1], f) = prev.inventory[s][1].snapshot[1][f])
        => /\ LocalValue(inventory[s][1], f) = prev.ebay[s][1][f]
           /\ results.out[s].list = "updated"
           /\ inventory[s][1].snapshot[1][f] = prev.ebay[s][1][f]

\* C9: after pull or smartSync applied a sale to a record, the record's
\* lastSyncedQty is its new currentQty, for every remote quantity from 0 up.
C9_SaleSetsLastSyncedQty ==
    \A s \in SKUs :
        (/\ results.op \in {"pull", "smartSync"}
         /\ FoundBoth(s)
         /\ prev.ebay[s][1].quantity >= 0
         /\ SaleApplied(s))
        => inventory[s][1].lastSyncedQty = Some(inventory[s][1].currentQty)

\* C10: push creates the missing listings.  For a record without a remote
\* listing, a push that reports no error for it writes a listing with the
\* record's quantity, price and title, sets the snapshot from the record's
\* own values and lastSyncedQty to currentQty, and reports the SKU in
\* created.
C10_PushCreatesMissing ==
    \A s \in SKUs :
        (/\ Fetched("push")
         /\ prev.inventory[s] # None
         /\ prev.ebay[s] = None
         /\ results.out[s].list # "errors")
        => LET L == prev.inventory[s][1]
           IN  /\ results.out[s].list = "created"
               /\ ebay[s] = Some(Listing(L.currentQty, L.price, L.description))
               /\ inventory[s][1].lastSyncedQty = Some(L.currentQty)
               /\ inventory[s][1].snapshot # None
               /\ inventory[s][1].snapshot[1].quantity = L.currentQty
               /\ inventory[s][1].snapshot[1].price = L.price
               /\ inventory[s][1].snapshot[1].title = L.description

\* C11: push, local changed and remote silent.  For a record whose price
\* differs from its snapshot price while the listing equals the snapshot, a
\* push that reports no error for it leaves the listing's price equal to the
\* record's price and reports the SKU in pushed.
C11_PushSendsLocalPrice ==
    \A s \in SKUs :
        (/\ Fetched("push")
         /\ FoundBoth(s)
         /\ prev.inventory[s][1].snapshot # None
         /\ prev.inventory[s][1].price # prev.inventory[s][1].snapshot[1].price
         /\ \A f \in TrackedFields :
               prev.ebay[s][1][f] = prev.inventory[s][1].snapshot[1][f]
         /\ results.out[s].list # "errors")
        => /\ results.out[s].list = "pushed"
           /\ ebay[s] # None
           /\ ebay[s][1].price = prev.inventory[s][1].price

\* C12: the first smartSync of a record infers no sale.  For an item on both
\* sides whose record has no snapshot and no lastSyncedQty, smartSync (of
\* either server) appends no EBAY_SALE entry and does not reduce currentQty,
\* whatever the remote quantity.
C12_FirstSyncInfersNoSale ==
    \A s \in SKUs :
        (/\ results.op \in {"smartSync", "smartSync_server"}
         /\ results.fetched
         /\ FoundBoth(s)
         /\ prev.inventory[s][1].snapshot = None
         /\ prev.inventory[s][1].lastSyncedQty = None)
        => /\ inventory[s] # None
           /\ ~SaleApplied(s)
           /\ results.out[s].sold = 0
           /\ inventory[s][1].currentQty >= prev.inventory[s][1].currentQty

\* The pull found a record without snapshot and a listing for the SKU
Bootstrap(s) ==
    /\ Fetched("pull")
    /\ FoundBoth(s)
    /\ prev.inventory[s][1].snapshot = None

\* What C13 says of everything but the price and the title: currentQty and
\* the history are as they were, and the snapshot holds the listing's
\* quantity, price and title
BootstrapKeepsQty(s) ==
    /\ inventory[s] # None
    /\ inventory[s][1].currentQty = prev.inventory[s][1].currentQty
    /\ inventory[s][1].history = prev.inventory[s][1].history
    /\ inventory[s][1].snapshot # None
    /\ \A f \in TrackedFields : inventory[s][1].snapshot[1][f] = prev.ebay[s][1][f]

C14_PullCreatesFromListing ==
    \A s \in SKUs :
        (Fetched("pull") /\ prev.inventory[s] = None /\ prev.ebay[s] # None)
        => LET e == prev.ebay[s][1]
           IN  /\ results.out[s].list = "created"
               /\ inventory[s] # None
               /\ inventory[s][1].currentQty = e.quantity
               /\ inventory[s][1].price = e.price
               /\ inventory[s][1].lastSyncedQty = Some(e.quantity)
               /\ inventory[s][1].snapshot # None
               /\ \A f \in TrackedFields : inventory[s][1].snapshot[1][f] = e[f]
               /\ inventory[s][1].history = << Entry("EBAY_IMPORT", e.quantity, e.quantity) >>

\* A pull has created a record from a listing
C14_Witness ==
    \E s \in SKUs :
        /\ Fetched("pull")
        /\ prev.inventory[s] = None
        /\ prev.ebay[s] # None
        /\ results.out[s].list = "created"
        /\ inventory[s] # None
        /\ inventory[s][1].currentQty = prev.ebay[s][1].quantity

\* C15: after smartSync reports a SKU in updated, the remote listing's
\* quantity, the record's currentQty, its snapshot's quantity and its
\* lastSyncedQty are all equal.
C15_UpdatedConverges ==
    \A s \in SKUs :
        (results.op = "smartSync" /\ results.out[s].list = "updated")
        => /\ inventory[s] # None
           /\ ebay[s] # None
           /\ ebay[s][1].quantity = inventory[s][1].currentQty
           /\ inventory[s][1].snapshot # None
           /\ inventory[s][1].snapshot[1].quantity = inventory[s][1].currentQty
           /\ inventory[s][1].lastSyncedQty = Some(inventory[s][1].currentQty)

\* Step 3 has detected a sale, deducted it and reported the SKU in updated
C15_Witness ==
    \E s \in SKUs :
        /\ results.op = "smartSync"
        /\ results.out[s].list = "updated"
        /\ results.out[s].sold > 0
        /\ inventory[s][1].currentQty < prev.inventory[s][1].currentQty
        /\ ebay[s][1].quantity # prev.ebay[s][1].quantity

\* The item of SKU t came out of the last sync call as its own state before
\* the call decides: a fetched listing was worked on, and what the call
\* reports for t is what it did to t
OwnOutcome(t) ==
    LET o == results.out[t]
    IN  /\ (results.fetched /\ prev.ebay[t] # None) => o.list # "none"
        /\ o.list = "none" => inventory[t] = prev.inventory[t] /\ ebay[t] = prev.ebay[t]
        /\ o.list \in {"created", "imported"}
             => /\ inventory[t] = Some(createLocalItemFromEbay(prev.ebay[t][1], prev.now))
                /\ ebay[t] = prev.ebay[t]
        /\ (o.list = "skipped" /\ o.reason = "No eBay changes")
             => inventory[t] = prev.inventory[t] /\ ebay[t] = prev.ebay[t]

C17_LastEntryMatchesQty ==
    \A s \in SKUs :
        (inventory[s] # None /\ inventory[s][1].history # << >>)
        => inventory[s][1].history[Len(inventory[s][1].history)].newTotal
              = inventory[s][1].currentQty

\* The history h continues the history g: g's entries, unchanged, then more
Continues(h, g) ==
    /\ Len(h) >= Len(g)
    /\ \A i \in 1..Len(g) : h[i] = g[i]

\* C18: history is append-only.  No step changes or removes an entry of an
\* existing record's history, and no history gets shorter.
C18_HistoryAppendOnly ==
    [][\A s \in SKUs :
          inventory[s] # None
          => /\ inventory'[s] # None
             /\ Continues(inventory'[s][1].history, inventory[s][1].history)]_vars

\* C19: currentQty >= 0 in every reachable state, local add and quantity
\* adjustment included.
C19_QtyNeverNegative ==
    \A s \in SKUs : inventory[s] # None => inventory[s][1].currentQty >= 0

\* C20: two smartSync calls in flight can count one remote decrease twice
\* (C20_Witness is such a run); a call that starts after the other call has
\* completed counts nothing again, so the double count comes from the
\* overlap of the calls.
C20_SerialCallsCountOnce ==
    \A c \in Calls : calls[c].after => calls[c].sold = 0

\* Both calls have completed, the environment has changed nothing, each
\* call has reported a sale, and the history ends with two EBAY_SALE
\* entries for the one decrease the listing showed
C20_Witness ==
    /\ budget = 1
    /\ \A c \in Calls : calls[c].pc = "done" /\ calls[c].sold > 0
    /\ calls[1].sold = calls[2].sold
    /\ LET h == inventory[ConcurrentSku][1].history
       IN  /\ Len(h) >= 3
           /\ h[Len(h)].action = "EBAY_SALE"
           /\ h[Len(h) - 1].action = "EBAY_SALE"

\* The fields of the listing e that differ from the snapshot snap, in the
\* order quantity, price, title, each with the old and the new value
RECURSIVE Differing(_, _, _)
Differing(fields, e, snap) ==
    IF fields = << >> THEN << >>
    ELSE LET f == Head(fields)
         IN  (IF e[f] # snap[f] THEN << [field |-> f, old |-> snap[f], new |-> e[f]] >>
              ELSE << >>)
             \o Differing(Tail(fields), e, snap)

\* C21: detectEbayChanges returns the single sentinel 'all' exactly when
\* there is no snapshot; otherwise one descriptor for exactly the fields
\* among quantity, price, title (in that order) whose remote value differs
\* from the snapshot's, none when none differs; the stores are as before.
C21_DetectEbayChanges ==
    results.op = "detectEbayChanges"
    => /\ (results.snapshot = None) <=> (results.changes = << [field |-> "all"] >>)
       /\ results.snapshot # None
            => results.changes = Differing(<< "quantity", "price", "title" >>,
                                           results.currentEbay, results.snapshot[1])
       /\ \A s \in SKUs : inventory[s] = None /\ ebay[s] = None

\* The detector was given a snapshot and a listing that differs from it in
\* quantity and title only, and returned the two descriptors
C21_Witness ==
    /\ results.op = "detectEbayChanges"
    /\ results.snapshot # None
    /\ results.currentEbay.quantity # results.snapshot[1].quantity
    /\ results.currentEbay.price = results.snapshot[1].price
    /\ results.currentEbay.title # results.snapshot[1].title
    /\ Len(results.changes) = 2
    /\ results.changes[1].field = "quantity"
    /\ results.changes[2].field = "title"

\* C22: a record's snapshot.takenAt never decreases, and a sync call either
\* leaves the record's snapshot untouched or replaces it with a whole
\* snapshot stamped at the time of the call.
C22_TakenAtMonotone ==
    [][\A s \in SKUs :
          (inventory[s] # None /\ inventory'[s] # None)
          => LET old == inventory[s][1].snapshot
                 new == inventory'[s][1].snapshot
             IN  /\ old # None
                      => new # None /\ new[1].takenAt.t >= old[1].takenAt.t
                 /\ results'.op \in SyncOps
                      => \/ new = old
                         \/ /\ new # None
                            /\ DOMAIN new[1] = {"quantity", "price", "title", "takenAt"}
                            /\ new[1].takenAt.t >= now
                            /\ new[1].takenAt.t <= now']_vars

\* A pull has replaced a record's snapshot by one taken later
C22_Witness ==
    \E s \in SKUs :
        /\ Fetched("pull")
        /\ prev.inventory[s] # None
        /\ prev.inventory[s][1].snapshot # None
        /\ inventory[s][1].snapshot # None
        /\ inventory[s][1].snapshot[1].takenAt.t > prev.inventory[s][1].snapshot[1].takenAt.t
        /\ inventory[s][1].snapshot[1].quantity # prev.inventory[s][1].snapshot[1].quantity

\* C23: a smartSync run that detects a sale on an item and then fails on
\* that item leaves the record as it found it (currentQty, snapshot,
\* history), so that the retry logs the decrease exactly once.
C23_FailedRunLeavesRecord ==
    \A s \in SKUs :
        (/\ results.op = "smartSync"
         /\ results.out[s].list = "errors"
         /\ results.out[s].sold > 0)
        => /\ inventory[s][1].currentQty = prev.inventory[s][1].currentQty
           /\ inventory[s][1].snapshot = prev.inventory[s][1].snapshot
           /\ inventory[s][1].history = prev.inventory[s][1].history

\* C24: a pull, push or smartSync request for an account whose access
\* token has expired but which holds a refresh token is not turned away as
\* not connected: it proceeds through the token refresh.
C24_ExpiredTokenIsRefreshed ==
    (results.op \in SyncOps /\ prev.account = "expired")
    => ~(results.status = "error" /\ results.error = "eBay account not connected")

\* C25: a push or smartSync call whose listing fetch failed does not take
\* the create/export path for a record that has a remote listing: the
\* listing is not overwritten and the record's sync tracking (snapshot,
\* lastSyncedQty), against which a pending decrease is measured, stays.
C25_FailedFetchKeepsListing ==
    \A s \in SKUs :
        (/\ results.op \in {"push", "smartSync", "smartSync_server"}
         /\ ~results.fetched
         /\ prev.inventory[s] # None
         /\ prev.ebay[s] # None)
        => /\ ebay[s] = prev.ebay[s]
           /\ inventory[s] # None
           /\ inventory[s][1].snapshot = prev.inventory[s][1].snapshot
           /\ inventory[s][1].lastSyncedQty = prev.inventory[s][1].lastSyncedQty

\* C26: push never erases an unapplied eBay sale.  When push processes a
\* record whose listing shows a quantity below the snapshot's, it neither
\* writes the local quantity over the remote one nor replaces the snapshot.
C26_PushKeepsPendingSale ==
    \A s \in SKUs :
        (/\ results.op = "push"
         /\ prev.inventory[s] # None
         /\ prev.inventory[s][1].snapshot # None
         /\ prev.ebay[s] # None
         /\ prev.ebay[s][1].quantity >= 0
         /\ prev.ebay[s][1].quantity < prev.inventory[s][1].snapshot[1].quantity)
        => /\ ebay[s][1].quantity = prev.ebay[s][1].quantity
           /\ inventory[s][1].snapshot = prev.inventory[s][1].snapshot

\* The quantities set by the local edits committed after the call c read
\* the record: the ADJUST entries the history has gained since
EditsSinceRead(c) ==
    LET h == inventory[ConcurrentSku][1].history
        seen == Len(calls[c].fullItem[1].history)
    IN  {h[i].newTotal : i \in {j \in (seen + 1)..Len(h) :
                                   h[j].action \in {"ADJUST_UP", "ADJUST_DOWN"}}}

\* C27: a local quantity edit committed while a smartSync call is between
\* reading the record and writing it back is not lost.  When the call has
\* finished, currentQty is the edited quantity, less the sale the call
\* applied if it applied one.
C27_EditDuringSyncKept ==
    \A c \in Calls :
        (/\ calls[c].pc = "done"
         /\ \A o \in Calls \ {c} : calls[o].pc = "idle")
        => \A q \in EditsSinceRead(c) :
              inventory[ConcurrentSku][1].currentQty \in {q, Max(0, q - calls[c].sold)}

\* C28: push-then-pull round trip.  A pull that directly follows a
\* successful push or smartSync of a record, nothing having changed in
\* between, reports the item as skipped and leaves the record as it is.
C28_PushThenPullIsNoOp ==
    [][\A s \in SKUs :
          (/\ results.op \in {"push", "smartSync"}
           /\ results.out[s].list \in {"pushed", "created", "updated", "exported"}
           /\ results'.op = "pull"
           /\ results'.fetched)
          => /\ results'.out[s].list = "skipped"
             /\ inventory'[s][1].price = inventory[s][1].price
             /\ inventory'[s][1].description = inventory[s][1].description
             /\ inventory'[s][1].currentQty = inventory[s][1].currentQty]_vars

\* C29: a sync's own bookkeeping write does not count as a local edit.
\* After a sync call has updated a record, the record's lastModified is not
\* later than its lastSyncTime, and the conflict check does not take the
\* local side as newer.
C29_SyncWriteIsNoLocalEdit ==
    \A s \in SKUs :
        (/\ results.op \in SyncOps
         /\ results.out[s].list \in {"updated", "pushed", "created", "exported"}
         /\ prev.inventory[s] # None)
        => /\ inventory[s][1].lastSyncTime # None
           /\ inventory[s][1].lastModified.t <= inventory[s][1].lastSyncTime[1].t
           /\ ~LocalIsNewer(inventory[s][1])

\* C30: pull is idempotent. A pull that directly follows a pull, with no
\* change on either side between the two, creates and updates nothing,
\* appends no history entry, and reports every remote item as skipped.
C30_PullIsIdempotent ==
    [][(/\ results.op = "pull"
        /\ results.fetched
        /\ results'.op = "pull"
        /\ results'.fetched)
       => /\ \A s \in SKUs :
                 ebay[s] # None => results'.out[s].list = "skipped"
          /\ \A s \in SKUs :
                 /\ (inventory[s] = None) = (inventory'[s] = None)
                 /\ inventory[s] # None
                    => /\ inventory'[s][1].history = inventory[s][1].history
                       /\ inventory'[s][1].currentQty = inventory[s][1].currentQty
                       /\ inventory'[s][1].price = inventory[s][1].price
                       /\ inventory'[s][1].description = inventory[s][1].description]_vars

\* A pull found a listing unchanged against the snapshot an earlier pull
\* stored with the record it had imported, and left the record as it was.
C30_Witness ==
    \E s \in SKUs :
        /\ Fetched("pull")
        /\ ebay[s] # None
        /\ ebay[s][1].price # 0
        /\ results.out[s].list = "skipped"
        /\ prev.inventory[s] # None
        /\ prev.inventory[s] = inventory[s]
        /\ inventory[s][1].history[1].action = "EBAY_IMPORT"
        /\ inventory[s][1].snapshot # None
        /\ inventory[s][1].snapshot[1].price = ebay[s][1].price

====
